---- MODULE Spec2Model ----
(***************************************************************************)
(* The booking lifecycle of Eventure: addBooking, cancelBooking and        *)
(* updateEvent as they run against the Event and Booking collections.      *)
(* Every request is served by an async handler; each await (a database     *)
(* query, the Stripe refund call) is one atomic step, and the steps of     *)
(* different requests interleave freely.                                   *)
(***************************************************************************)
EXTENDS Integers, FiniteSets, Sequences, TLC

VARIABLES
    events,      \* Event collection: _id -> document
    bookings,    \* Booking collection: _id -> document
    nextId,      \* the next Booking _id the database hands out
    now,         \* wall clock, in half hours
    pc,          \* request slot -> the await its handler is suspended at
    req,         \* request slot -> the request being served
    response,    \* the last HTTP response sent
    refunds,     \* Stripe: booking _id -> refunds created for its payment
    decrements   \* history: booking _id -> attendee decrements made for it

vars == <<events, bookings, nextId, now, pc, req, response, refunds, decrements>>

----------------------------------------------------------------------------
(* Bounds of the model *)

NumSlots == 2          \* requests in flight at once
MaxBookings == 2       \* bookings ever created
MaxQuantity == 2       \* largest quantity a request asks for
MaxNow == 1            \* the clock stops after this many half hours
MaxRefunds == 2        \* refunds of one booking, where attempts are repeated

(* Program constants *)

Unlimited == 0         \* capacity: null (falsy in `event.capacity && ...`)
Capacity == 2          \* capacity of the finite event the run starts with
PolicyHours == 24      \* `hoursUntilEvent < 24`
UnitsPerHour == 2      \* clock units per hour (the code counts 1000 * 60 * 60 ms)

\* the event starts exactly PolicyHours after the run begins
EventDate == PolicyHours * UnitsPerHour

Slots == 1..NumSlots
BookingIds == 1..MaxBookings
EventIds == {"e1"}
Customer == "a@x.com"
Organizer == "org@x.com"
Emails == {Customer, "b@x.com"}
NoEmail == ""
NoPayment == "none"
PaymentIntents == {NoPayment, "pi_1"}
Absent == "absent"
BodyStatuses == {Absent, "pending", "cancelled"}

----------------------------------------------------------------------------
(* Schemas *)

\* a slip: a booking awaits its payment unless told otherwise
DefaultStatusPending == "pending"

\* bookingSchema.status.default
DefaultStatus == "confirmed"

\* bookingSchema.quantity.min
MinQuantity == 1

\* eventSchema.virtual('isSoldOut')
isSoldOut(event) ==
    IF event.capacity = Unlimited THEN FALSE
    ELSE event.attendees >= event.capacity

\* bookingSchema.totalPrice.min
MinTotalPrice == 0

\* a slip: the document stored without its validators being run
bookingValidUnchecked(body) == TRUE

\* Booking.create(bookingData): the validators of bookingSchema
bookingValid(body) == body.quantity >= MinQuantity /\ body.totalPrice >= MinTotalPrice

\* the document Booking.create stores for a request body
newBookingDoc(body) ==
    [ eventId |-> body.eventId,
      email |-> body.email,
      quantity |-> body.quantity,
      totalPrice |-> body.totalPrice,
      status |-> IF body.status = Absent THEN DefaultStatus ELSE body.status,
      paymentIntentId |-> body.paymentIntentId ]

\* Event.findByIdAndUpdate(id, {$inc: {attendees: delta}}): no document, no effect
incAttendees(evs, id, delta) ==
    IF id \in DOMAIN evs
    THEN [evs EXCEPT ![id].attendees = @ + delta]
    ELSE evs

----------------------------------------------------------------------------
(* Requests and responses *)

NoReq ==
    [ op |-> "none", eventId |-> "", bookingId |-> 0, email |-> NoEmail,
      quantity |-> 0, totalPrice |-> 0, status |-> Absent,
      paymentIntentId |-> NoPayment, refund |-> FALSE ]

\* no ticket data: the fields a response without a ticket leaves out
NoTicket ==
    [ticketId |-> "", bookingId |-> "", eventId |-> "",
     email |-> "", quantity |-> 0, timestamp |-> 0]

NoResponse ==
    [ code |-> 0, message |-> "none", availableTickets |-> 0, hoursUntilEvent |-> 0,
      refund |-> FALSE, valid |-> FALSE, ticket |-> NoTicket ]

\* res.status(code).json({ message })
Reply(code, message) == [NoResponse EXCEPT !.code = code, !.message = message]

\* the handler returns: the slot is free again
Finish(p, r) ==
    /\ pc' = [pc EXCEPT ![p] = "idle"]
    /\ req' = [req EXCEPT ![p] = NoReq]
    /\ response' = r

\* the handler suspends at its next await; nothing is sent
Await(p, label, r) ==
    /\ pc' = [pc EXCEPT ![p] = label]
    /\ req' = [req EXCEPT ![p] = r]
    /\ response' = NoResponse

\* req.body of POST /api/add-booking
AddBodies ==
    { [NoReq EXCEPT !.op = "addBooking", !.eventId = e, !.email = Customer,
                    !.quantity = q, !.status = s, !.paymentIntentId = pi] :
        e \in EventIds, q \in 0..MaxQuantity,
        s \in BodyStatuses, pi \in PaymentIntents }
    \cup { [NoReq EXCEPT !.op = "addBooking", !.eventId = "e0", !.email = Customer,
                         !.quantity = 1] }

\* a req.body whose totalPrice parses to a negative number
NegativePriceBodies ==
    { [NoReq EXCEPT !.op = "addBooking", !.eventId = e, !.email = Customer,
                    !.quantity = MinQuantity, !.totalPrice = -1] : e \in EventIds }

\* req.body.params.data of PUT /api/update-event, the fields besides _id and
\* email: a new capacity (null, in range, or below the schema's minimum), a new
\* attendees value (in range or negative), or neither (say, a new title)
NoUpdate == [hasCapacity |-> FALSE, capacity |-> 0, hasAttendees |-> FALSE, attendees |-> 0]

UpdateDatas ==
    {NoUpdate}
    \cup { [NoUpdate EXCEPT !.hasCapacity = TRUE, !.capacity = c] :
              c \in {-1, Unlimited} \cup 1..Capacity }
    \cup { [NoUpdate EXCEPT !.hasAttendees = TRUE, !.attendees = a] : a \in {-1, 0} }

\* a request served in a single step is given the first free slot
FreeSlot(p) == pc[p] = "idle" /\ \A q \in Slots : q < p => pc[q] # "idle"

\* bookings being created or about to be: bounds the collection
InFlightAdds == Cardinality({p \in Slots : pc[p] = "add_create"})

----------------------------------------------------------------------------
(* addBooking *)

\* a slip: `>` for `>=`, so a full event is not yet sold out
soldOutCheckStrict(event) ==
    event.capacity # Unlimited /\ event.attendees > event.capacity

\* `event.capacity && event.attendees >= event.capacity`
soldOutCheck(event) ==
    event.capacity # Unlimited /\ event.attendees >= event.capacity

\* a slip: the `event.capacity &&` guard left out, so null compares as 0
exceedsCheckUnguarded(event, quantity) ==
    event.attendees + quantity > event.capacity

\* `event.capacity && (event.attendees + req.body.quantity) > event.capacity`
exceedsCheck(event, quantity) ==
    event.capacity # Unlimited /\ event.attendees + quantity > event.capacity

\* a slip: the operands swapped
availableTicketsSwapped(event) == event.attendees - event.capacity

\* `const availableTickets = event.capacity - event.attendees`
availableTickets(event) == event.capacity - event.attendees

\* Event.findById and the capacity checks made on the document it returned
AddBookingFind(p, body) ==
    /\ pc[p] = "idle"
    /\ UNCHANGED <<events, bookings, nextId, now, refunds, decrements>>
    /\ IF body.eventId \notin DOMAIN events
       THEN Finish(p, Reply(404, "Event not found"))
       ELSE LET event == events[body.eventId] IN
            IF soldOutCheck(event)
            THEN Finish(p, Reply(400, "Event is sold out"))
            ELSE IF exceedsCheck(event, body.quantity)
            THEN Finish(p, [Reply(400, "Only N tickets remaining")
                              EXCEPT !.availableTickets = availableTickets(event)])
            ELSE /\ nextId + InFlightAdds <= MaxBookings
                 /\ Await(p, "add_create", body)

\* Booking.create(bookingData)
AddBookingCreate(p) ==
    /\ pc[p] = "add_create"
    /\ UNCHANGED <<events, now, refunds, decrements>>
    /\ IF bookingValid(req[p])
       THEN /\ bookings' = bookings @@ (nextId :> newBookingDoc(req[p]))
            /\ nextId' = nextId + 1
            /\ Await(p, "add_inc",
                     [NoReq EXCEPT !.op = "addBooking", !.bookingId = nextId,
                                   !.eventId = req[p].eventId,
                                   !.quantity = req[p].quantity])
       ELSE /\ UNCHANGED <<bookings, nextId>>
            /\ Finish(p, Reply(500, "Failed to create booking"))

\* Event.findByIdAndUpdate(eventId, {$inc: {attendees: quantity}})
AddBookingInc(p) ==
    /\ pc[p] = "add_inc"
    /\ events' = incAttendees(events, req[p].eventId, req[p].quantity)
    /\ UNCHANGED <<bookings, nextId, now, refunds, decrements>>
    /\ Finish(p, Reply(201, "created"))

addBooking(p) ==
    \/ \E body \in AddBodies : AddBookingFind(p, body)
    \/ AddBookingCreate(p)
    \/ AddBookingInc(p)

----------------------------------------------------------------------------
(* cancelBooking *)

\* a slip: `!==` for `===`, the owner turned away and anyone else let through
isOwnerNegated(booking, email) == booking.email # email

\* `booking.email !== email` answers 403
isOwner(booking, email) == booking.email = email

\* a slip: the provider's spelling of the status, which no booking carries
alreadyCancelledMisspelt(booking) == booking.status = "canceled"

\* `booking.status === 'cancelled'` answers 400
alreadyCancelled(booking) == booking.status = "cancelled"

\* a slip: `<=` for `<`, so exactly 24 hours ahead is too late
withinPolicyWindowInclusive(event) == event.date - now <= PolicyHours * UnitsPerHour

\* `(eventDate - now) / (1000 * 60 * 60) < 24`, in clock units
withinPolicyWindow(event) == event.date - now < PolicyHours * UnitsPerHour

\* Math.round(hoursUntilEvent): halves round up
roundedHours(event) == (event.date - now + 1) \div UnitsPerHour

\* a slip: the policy check made ahead of the already-cancelled check
CancelBookingFindPolicyFirst(p, bookingId, email) ==
    /\ pc[p] = "idle"
    /\ UNCHANGED <<events, bookings, nextId, now, refunds, decrements>>
    /\ IF email = NoEmail
       THEN Finish(p, Reply(401, "Unauthorized: Email required"))
       ELSE IF bookingId \notin DOMAIN bookings
       THEN Finish(p, Reply(404, "Booking not found"))
       ELSE LET booking == bookings[bookingId] IN
            IF ~isOwner(booking, email)
            THEN Finish(p, Reply(403, "Forbidden"))
            ELSE IF booking.eventId \notin DOMAIN events
            THEN Finish(p, Reply(500, "Failed to cancel booking"))
            ELSE LET event == events[booking.eventId] IN
                 IF withinPolicyWindow(event)
                 THEN Finish(p, [Reply(400,
                                       "Cannot cancel within 24 hours of event")
                                   EXCEPT !.hoursUntilEvent = roundedHours(event)])
                 ELSE IF alreadyCancelled(booking)
                 THEN Finish(p, Reply(400, "Booking already cancelled"))
                 ELSE Await(p,
                            IF booking.paymentIntentId # NoPayment
                            THEN "cancel_refund" ELSE "cancel_save",
                            [NoReq EXCEPT !.op = "cancelBooking",
                                          !.bookingId = bookingId,
                                          !.eventId = booking.eventId,
                                          !.quantity = booking.quantity,
                                          !.paymentIntentId = booking.paymentIntentId])

\* Booking.findById(bookingId).populate('eventId') and the precondition checks
CancelBookingFind(p, bookingId, email) ==
    /\ pc[p] = "idle"
    /\ UNCHANGED <<events, bookings, nextId, now, refunds, decrements>>
    /\ IF email = NoEmail
       THEN Finish(p, Reply(401, "Unauthorized: Email required"))
       ELSE IF bookingId \notin DOMAIN bookings
       THEN Finish(p, Reply(404, "Booking not found"))
       ELSE LET booking == bookings[bookingId] IN
            IF ~isOwner(booking, email)
            THEN Finish(p, Reply(403, "Forbidden"))
            ELSE IF alreadyCancelled(booking)
            THEN Finish(p, Reply(400, "Booking already cancelled"))
            ELSE IF booking.eventId \notin DOMAIN events
            THEN Finish(p, Reply(500, "Failed to cancel booking"))
            ELSE LET event == events[booking.eventId] IN
                 IF withinPolicyWindow(event)
                 THEN Finish(p, [Reply(400,
                                       "Cannot cancel within 24 hours of event")
                                   EXCEPT !.hoursUntilEvent = roundedHours(event)])
                 ELSE Await(p,
                            IF booking.paymentIntentId # NoPayment
                            THEN "cancel_refund" ELSE "cancel_save",
                            [NoReq EXCEPT !.op = "cancelBooking",
                                          !.bookingId = bookingId,
                                          !.eventId = booking.eventId,
                                          !.quantity = booking.quantity,
                                          !.paymentIntentId = booking.paymentIntentId])

\* a slip: the catch answers 500 but the cancellation has been written
RefundFailedYetCancelled(p) ==
    /\ bookings' = [bookings EXCEPT ![req[p].bookingId].status = "cancelled"]
    /\ UNCHANGED <<events, refunds>>
    /\ Finish(p, Reply(500, "Cancellation initiated but refund failed"))

\* a slip: the catch puts the booking back to confirmed before it answers
RefundFailedRestoresStatus(p) ==
    /\ bookings' = [bookings EXCEPT ![req[p].bookingId].status = "confirmed"]
    /\ UNCHANGED <<events, refunds>>
    /\ Finish(p, Reply(500, "Cancellation initiated but refund failed"))

\* a slip: the refund's failure left to the handler's outer catch
RefundFailedGeneric(p) ==
    /\ UNCHANGED <<events, bookings, refunds>>
    /\ Finish(p, Reply(500, "Failed to cancel booking"))

\* the catch of stripeError: respond 500 and return
RefundFailed(p) ==
    /\ UNCHANGED <<events, bookings, refunds>>
    /\ Finish(p, Reply(500, "Cancellation initiated but refund failed"))

\* a slip: the refund call not awaited, the handler going on without its result
CancelBookingRefundNotAwaited(p) ==
    /\ pc[p] = "cancel_refund"
    /\ UNCHANGED <<events, bookings, nextId, now, refunds, decrements>>
    /\ Await(p, "cancel_save", [req[p] EXCEPT !.refund = TRUE])

\* stripe.refunds.create({payment_intent, reason}): the provider accepts or fails
CancelBookingRefund(p) ==
    /\ pc[p] = "cancel_refund"
    /\ UNCHANGED <<nextId, now, decrements>>
    /\ \/ /\ refunds' = [refunds EXCEPT ![req[p].bookingId] = @ + 1]
          /\ UNCHANGED <<events, bookings>>
          /\ Await(p, "cancel_save", [req[p] EXCEPT !.refund = TRUE])
       \/ RefundFailed(p)

\* booking.status = 'cancelled'; await booking.save()
CancelBookingSave(p) ==
    /\ pc[p] = "cancel_save"
    /\ UNCHANGED <<events, nextId, now, refunds, decrements>>
    /\ IF req[p].bookingId \in DOMAIN bookings
       THEN /\ bookings' = [bookings EXCEPT ![req[p].bookingId].status = "cancelled"]
            /\ Await(p, "cancel_dec", req[p])
       ELSE /\ UNCHANGED bookings
            /\ Finish(p, Reply(500, "Failed to cancel booking"))

\* a slip: one seat released whatever the booking's quantity
CancelBookingDecByOne(p) ==
    /\ pc[p] = "cancel_dec"
    /\ events' = incAttendees(events, req[p].eventId, -1)
    /\ decrements' = [decrements EXCEPT ![req[p].bookingId] = @ + 1]
    /\ UNCHANGED <<bookings, nextId, now, refunds>>
    /\ Finish(p, [Reply(200, "Booking cancelled successfully")
                    EXCEPT !.refund = req[p].refund])

\* Event.findByIdAndUpdate(booking.eventId, {$inc: {attendees: -booking.quantity}})
CancelBookingDec(p) ==
    /\ pc[p] = "cancel_dec"
    /\ events' = incAttendees(events, req[p].eventId, -req[p].quantity)
    /\ decrements' = [decrements EXCEPT ![req[p].bookingId] = @ + 1]
    /\ UNCHANGED <<bookings, nextId, now, refunds>>
    /\ Finish(p, [Reply(200, "Booking cancelled successfully")
                    EXCEPT !.refund = req[p].refund])

cancelBooking(p) ==
    \/ \E b \in BookingIds, email \in Emails \cup {NoEmail} : CancelBookingFind(p, b, email)
    \/ CancelBookingRefund(p)
    \/ CancelBookingSave(p)
    \/ CancelBookingDec(p)

----------------------------------------------------------------------------
(* Database calls that reject: the handlers' catch blocks *)

\* addBooking: Event.findByIdAndUpdate rejects after Booking.create has
\* resolved; the catch answers 500
AddBookingIncFails(p) ==
    /\ pc[p] = "add_inc"
    /\ UNCHANGED <<events, bookings, nextId, now, refunds, decrements>>
    /\ Finish(p, Reply(500, "Failed to create booking"))

\* cancelBooking: booking.save() rejects; the catch answers 500
CancelBookingSaveFails(p) ==
    /\ pc[p] = "cancel_save"
    /\ UNCHANGED <<events, bookings, nextId, now, refunds, decrements>>
    /\ Finish(p, Reply(500, "Failed to cancel booking"))

\* cancelBooking: Event.findByIdAndUpdate rejects after booking.save() has
\* resolved; the catch answers 500
CancelBookingDecFails(p) ==
    /\ pc[p] = "cancel_dec"
    /\ UNCHANGED <<events, bookings, nextId, now, refunds, decrements>>
    /\ Finish(p, Reply(500, "Failed to cancel booking"))

----------------------------------------------------------------------------
(* updateEvent *)

\* runValidators: capacity min 1 (null passes), attendees min 0
updateValid(data) ==
    /\ data.hasCapacity => (data.capacity = Unlimited \/ data.capacity >= 1)
    /\ data.hasAttendees => data.attendees >= 0

\* the document after `{ ...updateData, email: existingEvent.email }` is set
applyUpdate(event, data) ==
    [event EXCEPT
       !.capacity = IF data.hasCapacity THEN data.capacity ELSE @,
       !.attendees = IF data.hasAttendees THEN data.attendees ELSE @]

\* a slip: the caller's email is only required, not compared
ownsEventAnyEmail(event, email) == email # NoEmail

\* `event.email !== email` answers 403
ownsEvent(event, email) == event.email = email

\* updateEvent: Event.findById(_id), the authorization check, then
\* Event.findByIdAndUpdate(_id, {...}, { new: true, runValidators: true }).
\* The write takes nothing from the read but the organizer's email, which no
\* operation changes, and writes nothing when the event is gone, so the two
\* queries are one step.
updateEvent(p, id, email, data) ==
    /\ FreeSlot(p)
    /\ UNCHANGED <<bookings, nextId, now, refunds, decrements>>
    /\ IF email = NoEmail
       THEN /\ UNCHANGED events
            /\ Finish(p, Reply(401, "Unauthorized: Email required"))
       ELSE IF id \notin DOMAIN events
       THEN /\ UNCHANGED events
            /\ Finish(p, Reply(404, "Event not found"))
       ELSE IF ~ownsEvent(events[id], email)
       THEN /\ UNCHANGED events
            /\ Finish(p, Reply(403, "Forbidden: You can only update your own events"))
       ELSE IF ~updateValid(data)
       THEN /\ UNCHANGED events
            /\ Finish(p, Reply(500, "Failed to update event"))
       ELSE /\ events' = [events EXCEPT ![id] = applyUpdate(@, data)]
            /\ Finish(p, Reply(200, "updated"))

\* the requests made: every update by the organizer, and one by each other caller
UpdateRequests ==
    { <<id, Organizer, data>> : id \in EventIds, data \in UpdateDatas }
    \cup { <<id, email, NoUpdate>> : id \in EventIds, email \in {Customer, NoEmail} }
    \cup { <<"e0", Organizer, NoUpdate>> }

\* the updates the catalog is asked for: those above, and every update by a
\* caller who is not the organizer
CatalogUpdates ==
    UpdateRequests
    \cup { <<id, Customer, data>> : id \in EventIds, data \in UpdateDatas }

----------------------------------------------------------------------------
(* deleteEvent *)

\* Event.findById(id) and the authorization check on the document it returned
DeleteEventFind(p, id, email) ==
    /\ pc[p] = "idle"
    /\ UNCHANGED <<events, bookings, nextId, now, refunds, decrements>>
    /\ IF email = NoEmail
       THEN Finish(p, Reply(401, "Unauthorized: Email required"))
       ELSE IF id \notin DOMAIN events
       THEN Finish(p, Reply(404, "Event not found"))
       ELSE IF ~ownsEvent(events[id], email)
       THEN Finish(p, Reply(403, "Forbidden: You can only delete your own events"))
       ELSE Await(p, "delete_event",
                  [NoReq EXCEPT !.op = "deleteEvent", !.eventId = id, !.email = email])

\* Event.findByIdAndDelete(id)
DeleteEventDelete(p) ==
    /\ pc[p] = "delete_event"
    /\ events' = [e \in DOMAIN events \ {req[p].eventId} |-> events[e]]
    /\ UNCHANGED <<bookings, nextId, now, refunds, decrements>>
    /\ Await(p, "delete_bookings", req[p])

\* Booking.deleteMany({ eventId: id }): the bookings stored at this moment
DeleteEventBookings(p) ==
    /\ pc[p] = "delete_bookings"
    /\ bookings' = [b \in {x \in DOMAIN bookings : bookings[x].eventId # req[p].eventId}
                      |-> bookings[b]]
    /\ UNCHANGED <<events, nextId, now, refunds, decrements>>
    /\ Finish(p, Reply(200, "Event deleted successfully"))

\* req.query of DELETE /api/delete-event
DeleteRequests ==
    { <<id, email>> : id \in EventIds \cup {"e0"}, email \in {Organizer, Customer, NoEmail} }

deleteEvent(p) ==
    \/ \E r \in DeleteRequests : DeleteEventFind(p, r[1], r[2])
    \/ DeleteEventDelete(p)
    \/ DeleteEventBookings(p)

----------------------------------------------------------------------------
(* Tickets: ticketService.js and the two handlers that use it *)

\* generateTicketId: `TKT-${timestamp}-${random}-${bookingId.slice(-6)}`, a
\* value that differs from one issuance to the next
TicketIds == {"TKT-A", "TKT-B"}

\* the text of each Booking _id, and of one _id more than the run creates
IdTexts == <<"b1", "b2", "b3", "b4">>

\* booking._id.toString()
idToString(b) == IdTexts[b]

\* the _id a findById of a text looks up: 0, which is no booking's, for a text
\* that names none
stringToId(str) ==
    IF \E b \in BookingIds : IdTexts[b] = str
    THEN CHOOSE b \in BookingIds : IdTexts[b] = str
    ELSE 0

\* Document.prototype.toString of a populated Event document: the text of
\* util.inspect(doc), not the text of its _id
docToString(e) == "{ _id: " \o e \o ", ... }"

\* createTicket: the ticketData of a stored booking and its populated event,
\* stamped with Date.now()
ticketData(bookingId, eventId, ticketId) ==
    [ticketId |-> ticketId, bookingId |-> idToString(bookingId), eventId |-> eventId,
     email |-> bookings[bookingId].email, quantity |-> bookings[bookingId].quantity,
     timestamp |-> now]

\* generateQRCode: JSON.stringify of the ticket's fields, as the text's members
stringify(data) ==
    <<data.ticketId, data.bookingId, data.eventId,
      data.email, data.quantity, data.timestamp>>

\* JSON.parse succeeds on the text of an object
parses(qrData) == Len(qrData) = 6

\* JSON.parse(qrData)
parse(qrData) ==
    [ticketId |-> qrData[1], bookingId |-> qrData[2], eventId |-> qrData[3],
     email |-> qrData[4], quantity |-> qrData[5], timestamp |-> qrData[6]]

\* a slip: every booking that is not cancelled gets a ticket
ticketAllowedUnlessCancelled(booking) == booking.status # "cancelled"

\* downloadTicket: `booking.status !== 'confirmed'` answers 400
ticketAllowed(booking) == booking.status = "confirmed"

\* a slip: issuing a ticket counts its seats as attendees once more
SendTicketCountingSeats(p, bookingId, ticketId) ==
    /\ events' = incAttendees(events, bookings[bookingId].eventId,
                              bookings[bookingId].quantity)
    /\ UNCHANGED bookings
    /\ Finish(p, [Reply(200, "ticket") EXCEPT
                    !.ticket = ticketData(bookingId, bookings[bookingId].eventId,
                                          ticketId)])

\* createTicket(booking, booking.eventId) and res.send(ticket.pdfBuffer)
SendTicket(p, bookingId, ticketId) ==
    /\ UNCHANGED <<events, bookings>>
    /\ Finish(p, [Reply(200, "ticket") EXCEPT
                    !.ticket = ticketData(bookingId, bookings[bookingId].eventId,
                                          ticketId)])

\* downloadTicket: Booking.findById(bookingId).populate('eventId'), the checks
\* and the ticket made from the document read. After the one query the handler
\* reads and writes no stored state, so the request is one step.
downloadTicket(p, bookingId, email) ==
    /\ FreeSlot(p)
    /\ UNCHANGED <<nextId, now, refunds, decrements>>
    /\ IF email = NoEmail
       THEN /\ UNCHANGED <<events, bookings>>
            /\ Finish(p, Reply(401, "Unauthorized: Email required"))
       ELSE IF bookingId \notin DOMAIN bookings
       THEN /\ UNCHANGED <<events, bookings>>
            /\ Finish(p, Reply(404, "Booking not found"))
       ELSE IF ~isOwner(bookings[bookingId], email)
       THEN /\ UNCHANGED <<events, bookings>>
            /\ Finish(p, Reply(403, "Forbidden"))
       ELSE IF ~ticketAllowed(bookings[bookingId])
       THEN /\ UNCHANGED <<events, bookings>>
            /\ Finish(p, Reply(400, "Cannot download ticket"))
       ELSE IF bookings[bookingId].eventId \notin DOMAIN events
       THEN /\ UNCHANGED <<events, bookings>>
            /\ Finish(p, Reply(500, "Ticket generation failed"))
       ELSE \/ \E ticketId \in TicketIds : SendTicket(p, bookingId, ticketId)
            \/ /\ UNCHANGED <<events, bookings>>
               /\ Finish(p, Reply(500, "Ticket generation failed"))

\* `booking.eventId.toString()` of the booking findBooking returned, its
\* eventId populated with the Event document
eventIdText(booking) == docToString(booking.eventId)

\* a slip: only the ticket id issued first passes the format check
hasShapeFirstTicketOnly(data) == data.ticketId = "TKT-A" /\ data.bookingId # ""

\* verifyTicket: `!ticketData.ticketId || !ticketData.bookingId` fails the format
hasShape(data) == data.ticketId # "" /\ data.bookingId # ""

\* a slip: the status is compared with the American spelling
ticketRevokedMisspelt(booking) == booking.status = "canceled"

\* verifyTicket: `booking.status === 'cancelled'`
ticketRevoked(booking) == booking.status = "cancelled"

\* ticketService.verifyTicket(qrData, findBooking): the message of its result,
\* 'Ticket verified successfully' when valid
verifyMessage(qrData) ==
    IF ~parses(qrData) THEN "Verification failed"
    ELSE LET data == parse(qrData) IN
         IF ~hasShape(data) THEN "Invalid ticket format"
         ELSE IF stringToId(data.bookingId) \notin DOMAIN bookings
         THEN "Ticket not found"
         ELSE LET booking == bookings[stringToId(data.bookingId)] IN
              IF ticketRevoked(booking) THEN "Ticket has been cancelled"
              ELSE IF booking.eventId \notin DOMAIN events
              THEN "Verification failed"
              ELSE IF eventIdText(booking) # data.eventId THEN "Event mismatch"
              ELSE "Ticket verified successfully"

VerifiedMessage == "Ticket verified successfully"

\* verifyTicket: one query, through findBooking; nothing is written
verifyTicket(p, qrData) ==
    /\ FreeSlot(p)
    /\ UNCHANGED <<events, bookings, nextId, now, refunds, decrements>>
    /\ IF qrData = <<>>
       THEN Finish(p, Reply(400, "QR data required"))
       ELSE IF verifyMessage(qrData) = VerifiedMessage
       THEN Finish(p, [Reply(200, VerifiedMessage) EXCEPT !.valid = TRUE])
       ELSE Finish(p, Reply(400, verifyMessage(qrData)))

\* the text of a ticket's fields
payloads(ticketIds, bookingIds, eventIds, emails, quantities, timestamps) ==
    { stringify(data) :
        data \in [ticketId : ticketIds, bookingId : bookingIds, eventId : eventIds,
                  email : emails, quantity : quantities, timestamp : timestamps] }

\* the text of every Booking _id the run can store
BookingTexts == {idToString(b) : b \in BookingIds}

\* req.body.qrData of POST /api/verify-ticket: the text of every ticket for one
\* seat the run can issue; texts with another quantity; texts that name the
\* wrong event, or the event by the text of its document; texts that name no
\* stored booking or leave an id out; the empty text; and a text that is no
\* JSON
QrDatas ==
    payloads(TicketIds, BookingTexts, EventIds, Emails, {MinQuantity}, 0..MaxNow)
    \cup payloads({"TKT-A"}, BookingTexts, EventIds, {Customer}, {MaxQuantity}, {0})
    \cup payloads(TicketIds, BookingTexts, {docToString(x) : x \in EventIds},
                  {Customer}, {MinQuantity}, {0})
    \cup payloads({"TKT-A"}, BookingTexts, {"e0"}, {Customer}, {MinQuantity}, {0})
    \cup payloads({"", "TKT-A"}, {"", idToString(MaxBookings + 1)}, EventIds,
                  {Customer}, {MinQuantity}, {0})
    \cup payloads({""}, {idToString(1)}, EventIds, {Customer}, {MinQuantity}, {0})
    \cup { <<>>, <<"{">> }

----------------------------------------------------------------------------
(* Payment reconciliation: POST /api/webhook. The handler is the spec's      *)
(* section 4.3; index.js routes to it.                                       *)

\* the kinds of provider event: succeeded, failed, canceled, and one the state
\* machine does not know
EventKinds == {"succeeded", "failed", "canceled", "unknown"}

\* the payment references notifications come for: one some bookings carry, one
\* no booking carries
PaymentRefs == {"pi_1", "pi_0"}

\* a slip: the mapping applied whatever the booking's status is
reconciledAnyStatus(status, kind) ==
    IF kind = "succeeded" THEN "confirmed"
    ELSE IF kind \in {"failed", "canceled"} THEN "cancelled"
    ELSE status

\* the status a notification of a kind moves a pending booking to
reconciled(status, kind) ==
    IF status # "pending" THEN status
    ELSE IF kind = "succeeded" THEN "confirmed"
    ELSE IF kind \in {"failed", "canceled"} THEN "cancelled"
    ELSE status

\* a slip: a notification for a booking that is no longer pending is an error
ReconcileRefusingReplay(p, b, kind) ==
    /\ UNCHANGED events
    /\ IF bookings[b].status = "pending"
       THEN /\ bookings' = [bookings EXCEPT ![b].status = reconciled(@, kind)]
            /\ Finish(p, Reply(200, "received"))
       ELSE /\ UNCHANGED bookings
            /\ Finish(p, Reply(500, "Webhook processing failed"))

\* a slip: a payment that fails gives the booking's seats back
ReconcileReleasingSeats(p, b, kind) ==
    /\ bookings' = [bookings EXCEPT ![b].status = reconciled(@, kind)]
    /\ events' = IF bookings[b].status # reconciled(bookings[b].status, kind)
                     /\ reconciled(bookings[b].status, kind) = "cancelled"
                  THEN incAttendees(events, bookings[b].eventId, -bookings[b].quantity)
                  ELSE events
    /\ Finish(p, Reply(200, "received"))

\* the located booking's status set per the mapping; the ledger is not touched
Reconcile(p, b, kind) ==
    /\ bookings' = [bookings EXCEPT ![b].status = reconciled(@, kind)]
    /\ UNCHANGED events
    /\ Finish(p, Reply(200, "received"))

\* handleStripeWebhook: the signature check, then the booking located by its
\* payment reference and moved per the mapping; no match, no effect
handleStripeWebhook(p, signed, kind, paymentRef) ==
    /\ FreeSlot(p)
    /\ UNCHANGED <<nextId, now, refunds, decrements>>
    /\ IF ~signed
       THEN /\ UNCHANGED <<events, bookings>>
            /\ Finish(p, Reply(400, "Webhook signature verification failed"))
       ELSE IF \A b \in DOMAIN bookings : bookings[b].paymentIntentId # paymentRef
       THEN /\ UNCHANGED <<events, bookings>>
            /\ Finish(p, Reply(200, "received"))
       ELSE \E b \in DOMAIN bookings :
              /\ bookings[b].paymentIntentId = paymentRef
              /\ Reconcile(p, b, kind)

\* the notifications delivered: every kind for every reference, and a forged one
Notifications ==
    { <<TRUE, kind, ref>> : kind \in EventKinds, ref \in PaymentRefs }
    \cup { <<FALSE, "succeeded", "pi_1">> }

----------------------------------------------------------------------------
(* The clock *)

Tick ==
    /\ now < MaxNow
    /\ now' = now + 1
    /\ response' = NoResponse
    /\ UNCHANGED <<events, bookings, nextId, pc, req, refunds, decrements>>

----------------------------------------------------------------------------
Init ==
    /\ \E c \in {Capacity, Unlimited} :
          events = [e \in EventIds |->
                      [ capacity |-> c, attendees |-> 0,
                        date |-> EventDate, email |-> Organizer ]]
    /\ bookings = <<>>
    /\ nextId = 1
    /\ now = 0
    /\ pc = [p \in Slots |-> "idle"]
    /\ req = [p \in Slots |-> NoReq]
    /\ response = NoResponse
    /\ refunds = [b \in BookingIds |-> 0]
    /\ decrements = [b \in BookingIds |-> 0]

Next ==
    \/ \E p \in Slots : addBooking(p)
    \/ \E p \in Slots : cancelBooking(p)
    \/ \E p \in Slots, r \in UpdateRequests : updateEvent(p, r[1], r[2], r[3])
    \/ Tick

Spec == Init /\ [][Next]_vars

\* the ledger alone: bookings are created and cancelled, the catalog is left alone
NextLedger ==
    \/ \E p \in Slots : addBooking(p)
    \/ \E p \in Slots, body \in NegativePriceBodies : AddBookingFind(p, body)
    \/ \E p \in Slots : cancelBooking(p)
    \/ Tick

SpecLedger == Init /\ [][NextLedger]_vars

\* the bookings tickets are asked for: of one seat each, of every status and
\* with or without a payment
TicketBodies == {body \in AddBodies : body.quantity = 1}

\* the ledger and the tickets derived from it
NextTickets ==
    \/ \E p \in Slots, body \in TicketBodies : AddBookingFind(p, body)
    \/ \E p \in Slots : AddBookingCreate(p)
    \/ \E p \in Slots : AddBookingInc(p)
    \/ \E p \in Slots : cancelBooking(p)
    \/ \E p \in Slots, b \in BookingIds, email \in Emails \cup {NoEmail} :
          downloadTicket(p, b, email)
    \/ \E p \in Slots, qrData \in QrDatas : verifyTicket(p, qrData)
    \/ Tick

SpecTickets == Init /\ [][NextTickets]_vars

\* the payloads presented during the lifecycle: tickets as issued at time 0,
\* tickets naming the event by the text of its document, no text, and no JSON
LifecycleQrDatas ==
    payloads(TicketIds, BookingTexts,
             EventIds \cup {docToString(x) : x \in EventIds},
             {Customer}, {MinQuantity}, {0})
    \cup { <<>>, <<"{">> }

\* the whole lifecycle of a booking: created, paid for, ticketed, cancelled
NextLifecycle ==
    \/ \E p \in Slots : addBooking(p)
    \/ \E p \in Slots : cancelBooking(p)
    \/ \E p \in Slots, b \in BookingIds, email \in Emails \cup {NoEmail} :
          downloadTicket(p, b, email)
    \/ \E p \in Slots, qrData \in LifecycleQrDatas : verifyTicket(p, qrData)
    \/ \E p \in Slots, n \in Notifications : handleStripeWebhook(p, n[1], n[2], n[3])
    \/ Tick

SpecLifecycle == Init /\ [][NextLifecycle]_vars

\* the bookings made while the catalog changes: of one seat, confirmed on
\* creation, paid for or not
CatalogBodies == {body \in AddBodies : body.status = Absent /\ body.quantity = 1}

\* the catalog and the ledger: events are updated and deleted while bookings
\* are created and cancelled
NextCatalog ==
    \/ \E p \in Slots, body \in CatalogBodies : AddBookingFind(p, body)
    \/ \E p \in Slots : AddBookingCreate(p)
    \/ \E p \in Slots : AddBookingInc(p)
    \/ \E p \in Slots : cancelBooking(p)
    \/ \E p \in Slots, r \in CatalogUpdates : updateEvent(p, r[1], r[2], r[3])
    \/ \E p \in Slots : deleteEvent(p)

SpecCatalog == Init /\ [][NextCatalog]_vars

\* the bookings made while database calls may reject: confirmed on creation
FaultBodies == {body \in AddBodies : body.status = Absent}

\* no request is being served
NoneInFlight == \A p \in Slots : pc[p] = "idle"

\* an addBooking request sent after every earlier request was answered
AddBookingAlone(p, body) ==
    /\ NoneInFlight
    /\ FreeSlot(p)
    /\ AddBookingFind(p, body)

\* a cancelBooking request sent after every earlier request was answered, for
\* a booking refunded fewer than MaxRefunds times
CancelBookingAlone(p, bookingId, email) ==
    /\ NoneInFlight
    /\ refunds[bookingId] < MaxRefunds
    /\ FreeSlot(p)
    /\ CancelBookingFind(p, bookingId, email)

\* one client at a time, each request sent after the last was answered, and
\* any database write rejecting
NextFaults ==
    \/ \E p \in Slots, body \in FaultBodies : AddBookingAlone(p, body)
    \/ \E p \in Slots : AddBookingCreate(p)
    \/ \E p \in Slots : AddBookingInc(p)
    \/ \E p \in Slots : AddBookingIncFails(p)
    \/ \E p \in Slots, b \in BookingIds, email \in Emails :
          CancelBookingAlone(p, b, email)
    \/ \E p \in Slots : CancelBookingRefund(p)
    \/ \E p \in Slots : CancelBookingSave(p)
    \/ \E p \in Slots : CancelBookingSaveFails(p)
    \/ \E p \in Slots : CancelBookingDec(p)
    \/ \E p \in Slots : CancelBookingDecFails(p)
    \/ Tick

SpecFaults == Init /\ [][NextFaults]_vars

\* the bookings payments are reconciled for: of one seat, either awaiting the
\* payment they carry or unpaid and confirmed on creation
PaymentBodies ==
    { body \in AddBodies :
        /\ body.quantity = 1
        /\ \/ body.status = "pending" /\ body.paymentIntentId # NoPayment
           \/ body.status = Absent /\ body.paymentIntentId = NoPayment }

\* the ledger and the provider's notifications
NextPayments ==
    \/ \E p \in Slots, body \in PaymentBodies : AddBookingFind(p, body)
    \/ \E p \in Slots : AddBookingCreate(p)
    \/ \E p \in Slots : AddBookingInc(p)
    \/ \E p \in Slots : cancelBooking(p)
    \/ \E p \in Slots, n \in Notifications : handleStripeWebhook(p, n[1], n[2], n[3])
    \/ Tick

SpecPayments == Init /\ [][NextPayments]_vars

----------------------------------------------------------------------------
(* Quantities the properties are stated in *)

\* the sum of f over the set S
RECURSIVE sumOver(_, _)
sumOver(f, S) ==
    IF S = {} THEN 0
    ELSE LET b == CHOOSE x \in S : TRUE
         IN f[b] + sumOver(f, S \ {b})

quantityOf == [b \in DOMAIN bookings |-> bookings[b].quantity]

\* the persisted bookings of an event that are not cancelled
liveBookings(e) ==
    {b \in DOMAIN bookings : bookings[b].eventId = e /\ bookings[b].status # "cancelled"}

\* the seats those bookings hold
bookedSeats(e) == sumOver(quantityOf, liveBookings(e))

\* what the requests served so far have added to and taken from the counter:
\* a booking's quantity at its creation, less that quantity per cancellation
netSeats(e) ==
    sumOver([b \in DOMAIN bookings |-> bookings[b].quantity * (1 - decrements[b])],
            {b \in DOMAIN bookings : bookings[b].eventId = e})

\* no handler is between two awaits
AllIdle == \A p \in Slots : pc[p] = "idle"

SoldOutMessage == "Event is sold out"
ExceededMessage == "Only N tickets remaining"

----------------------------------------------------------------------------
(* C1: for an event with finite capacity, the quantities of its persisted   *)
(* non-cancelled bookings never sum to more than the capacity, however      *)
(* concurrent addBooking requests interleave.                               *)
C1_BookedSeatsWithinCapacity ==
    \A e \in DOMAIN events :
        events[e].capacity # Unlimited => bookedSeats(e) <= events[e].capacity

\* both of two racing requests were served: at rest, the event's confirmed
\* bookings hold more seats than it has
C1_Witness ==
    /\ AllIdle
    /\ \E e \in DOMAIN events :
          /\ events[e].capacity = Capacity
          /\ \A b \in liveBookings(e) : bookings[b].status = "confirmed"
          /\ bookedSeats(e) > Capacity
          /\ events[e].attendees = bookedSeats(e)

(* C2: in every reachable state an event whose capacity is not unlimited    *)
(* has attendees <= capacity.                                               *)
C2_AttendeesWithinCapacity ==
    \A e \in DOMAIN events :
        events[e].capacity # Unlimited => events[e].attendees <= events[e].capacity

(* C3: in every reachable state every event has attendees >= 0.             *)
C3_AttendeesNonNegative ==
    \A e \in DOMAIN events : events[e].attendees >= 0

\* the counter stays negative once every request has returned
C3_Witness ==
    AllIdle /\ \E e \in DOMAIN events : events[e].attendees < 0

(* C4: whenever no addBooking or cancelBooking request is mid-execution,    *)
(* an event's attendees equals the summed quantity of its non-cancelled     *)
(* bookings.                                                                *)
C4_AttendeesMatchBookings ==
    AllIdle => \A e \in DOMAIN events : events[e].attendees = bookedSeats(e)

\* a booking cancelled by two racing requests was subtracted twice
C4_Witness ==
    /\ AllIdle
    /\ \E b \in DOMAIN bookings :
          /\ decrements[b] = 2
          /\ events[bookings[b].eventId].attendees # bookedSeats(bookings[b].eventId)

(* C5: addBooking for quantity q on an event with finite capacity, with     *)
(* attendees < capacity and attendees + q > capacity, is answered 400 with  *)
(* the capacity-exceeded message and availableTickets = capacity -          *)
(* attendees; no booking is persisted and attendees is unchanged.           *)
C5_CapacityExceededRejected ==
    [][\A p \in Slots, body \in AddBodies :
         ( /\ AddBookingFind(p, body)
           /\ body.eventId \in DOMAIN events
           /\ events[body.eventId].capacity # Unlimited
           /\ events[body.eventId].attendees < events[body.eventId].capacity
           /\ events[body.eventId].attendees + body.quantity
                > events[body.eventId].capacity )
         => ( /\ response'.code = 400
              /\ response'.message = ExceededMessage
              /\ response'.availableTickets
                   = events[body.eventId].capacity - events[body.eventId].attendees
              /\ pc'[p] = "idle"
              /\ bookings' = bookings
              /\ events' = events )]_vars

\* an over-asking request has just been turned away from a part-filled event
C5_Witness ==
    /\ response.message = ExceededMessage
    /\ response.availableTickets = 1
    /\ \E e \in DOMAIN events : events[e].attendees = events[e].capacity - 1

(* C6: addBooking answers with the sold-out error exactly when the event's  *)
(* isSoldOut predicate is true, for every quantity and ahead of the         *)
(* capacity-exceeded error; the rejection persists no booking and leaves    *)
(* attendees unchanged.                                                     *)
C6_SoldOutRejected ==
    [][\A p \in Slots, body \in AddBodies :
         (AddBookingFind(p, body) /\ body.eventId \in DOMAIN events)
         => ( /\ (response'.message = SoldOutMessage) <=> isSoldOut(events[body.eventId])
              /\ isSoldOut(events[body.eventId])
                   => ( /\ response'.code = 400
                        /\ response'.message # ExceededMessage
                        /\ pc'[p] = "idle"
                        /\ bookings' = bookings
                        /\ events' = events ) )]_vars

\* a request has just been turned away from a full event
C6_Witness ==
    /\ response.message = SoldOutMessage
    /\ \E e \in DOMAIN events :
          events[e].capacity # Unlimited /\ events[e].attendees >= events[e].capacity

(* C7: for an event with unlimited capacity (null) the capacity check is    *)
(* skipped: addBooking with quantity >= 1 goes on to create the booking     *)
(* whatever attendees is, no step of it answers sold out or capacity        *)
(* exceeded, and isSoldOut is false.                                        *)
C7_UnlimitedNeverRejected ==
    [][\A p \in Slots, body \in AddBodies :
         ( /\ AddBookingFind(p, body)
           /\ body.eventId \in DOMAIN events
           /\ events[body.eventId].capacity = Unlimited
           /\ body.quantity >= 1 )
         => ( /\ ~isSoldOut(events[body.eventId])
              /\ pc'[p] = "add_create"
              /\ response'.message \notin {SoldOutMessage, ExceededMessage} )]_vars

\* a booking is admitted to an unlimited event that already holds as many as
\* the finite capacity would allow
C7_Witness ==
    \E p \in Slots :
        /\ pc[p] = "add_create"
        /\ req[p].quantity >= 1
        /\ req[p].eventId \in DOMAIN events
        /\ events[req[p].eventId].capacity = Unlimited
        /\ events[req[p].eventId].attendees >= Capacity

(* C8: when the refund request of cancelBooking fails for a booking that    *)
(* carries a payment reference, the request changes neither the booking's   *)
(* status nor the event's attendees, and the caller gets an error response. *)
C8_NoRefundNoCancel ==
    [][\A p \in Slots :
         ( \/ pc'[p] = "cancel_refund" /\ pc[p] # "cancel_refund"
           \/ pc[p] = "cancel_refund" /\ pc'[p] = "idle" )
         => ( /\ bookings' = bookings
              /\ events' = events
              /\ decrements' = decrements
              /\ (pc'[p] = "idle" => response'.code = 500 /\ refunds' = refunds) )]_vars

\* a refund has just failed for a paid booking that is still confirmed
C8_Witness ==
    /\ response.message = "Cancellation initiated but refund failed"
    /\ \E b \in DOMAIN bookings :
          /\ bookings[b].paymentIntentId # NoPayment
          /\ bookings[b].status = "confirmed"
          /\ refunds[b] = 0
          /\ decrements[b] = 0
          /\ events[bookings[b].eventId].attendees = bookings[b].quantity

(* C9: creation adds exactly the booking's quantity to attendees and each   *)
(* successful cancellation subtracts exactly that quantity, so a booking    *)
(* created and then cancelled once leaves attendees where it was before the *)
(* booking.                                                                 *)
C9_CancelReversesBooking ==
    AllIdle => \A e \in DOMAIN events : events[e].attendees = netSeats(e)

\* a booking of two seats was made beside another and cancelled once: the
\* attendees counter is back at the other booking's quantity
C9_Witness ==
    /\ AllIdle
    /\ \E b, c \in DOMAIN bookings :
          /\ b # c
          /\ bookings[c].eventId = bookings[b].eventId
          /\ bookings[c].status = "cancelled" /\ decrements[c] = 1
          /\ bookings[c].quantity = 2
          /\ bookings[b].status = "confirmed" /\ decrements[b] = 0
          /\ events[bookings[b].eventId].attendees = bookings[b].quantity

(* C10: two concurrent cancelBooking requests for one booking take effect   *)
(* once: at most one refund is issued for the booking and attendees is      *)
(* decremented for it at most once.                                         *)
C10_CancelTakesEffectOnce ==
    \A b \in BookingIds : refunds[b] <= 1 /\ decrements[b] <= 1


\* an unpaid booking cancelled by two racing requests: no refund is involved and
\* its seats were released twice
C10_Witness ==
    /\ AllIdle
    /\ \E b \in DOMAIN bookings :
          /\ bookings[b].paymentIntentId = NoPayment
          /\ refunds[b] = 0
          /\ decrements[b] = 2

----------------------------------------------------------------------------
ForbiddenMessage == "Forbidden"
NotFoundMessage == "Booking not found"
AlreadyCancelledMessage == "Booking already cancelled"
PolicyMessage == "Cannot cancel within 24 hours of event"

\* the requesters of a cancellation who give an email
Requesters == Emails

\* a cancelBooking request left stored state as it was
NoEffect ==
    /\ bookings' = bookings
    /\ events' = events
    /\ refunds' = refunds
    /\ decrements' = decrements

\* the event of a stored booking is stored too
eventStored(b) == b \in DOMAIN bookings => bookings[b].eventId \in DOMAIN events

\* the first precondition of cancelBooking that fails for a requester, in the
\* order exists, owner, not cancelled, 24 hours ahead; "none" when all hold
firstFailure(bookingId, email) ==
    IF bookingId \notin DOMAIN bookings THEN NotFoundMessage
    ELSE IF bookings[bookingId].email # email THEN ForbiddenMessage
    ELSE IF bookings[bookingId].status = "cancelled" THEN AlreadyCancelledMessage
    ELSE IF events[bookings[bookingId].eventId].date - now
              < PolicyHours * UnitsPerHour
    THEN PolicyMessage
    ELSE "none"

(* C11: cancelBooking checks its preconditions in the order booking exists, *)
(* requester is the owner, status is not cancelled, event at least 24 hours *)
(* ahead, and reports the first that fails; when none fails it goes on.     *)
C11_FirstFailureReported ==
    [][\A p \in Slots, b \in BookingIds, email \in Requesters :
         (CancelBookingFind(p, b, email) /\ eventStored(b))
         => IF firstFailure(b, email) = "none"
            THEN pc'[p] \in {"cancel_refund", "cancel_save"}
            ELSE /\ pc'[p] = "idle"
                 /\ response'.message = firstFailure(b, email)
                 /\ response'.code =
                      IF firstFailure(b, email) = NotFoundMessage THEN 404
                      ELSE IF firstFailure(b, email) = ForbiddenMessage THEN 403
                      ELSE 400]_vars

\* the owner of a cancelled booking asked again inside the 24-hour window and
\* was told the booking is already cancelled
C11_Witness ==
    /\ response.message = AlreadyCancelledMessage
    /\ now >= 1
    /\ \A e \in DOMAIN events : events[e].date - now < PolicyHours * UnitsPerHour

(* C12: a cancelBooking request made less than 24 hours before the event is *)
(* rejected with the policy violation, issues no refund and changes neither *)
(* the booking's status nor attendees; one made 24 hours or more before the *)
(* event passes the policy check.                                           *)
C12_PolicyWindow ==
    [][\A p \in Slots, b \in BookingIds, email \in Requesters :
         ( /\ CancelBookingFind(p, b, email)
           /\ b \in DOMAIN bookings
           /\ eventStored(b)
           /\ bookings[b].email = email
           /\ bookings[b].status # "cancelled" )
         => IF events[bookings[b].eventId].date - now < PolicyHours * UnitsPerHour
            THEN /\ response'.code = 400
                 /\ response'.message = PolicyMessage
                 /\ pc'[p] = "idle"
                 /\ NoEffect
            ELSE /\ pc'[p] \in {"cancel_refund", "cancel_save"}
                 /\ response'.message # PolicyMessage]_vars

\* half an hour into the last day a cancellation was refused: the booking is
\* as it was, nothing refunded, no seat released
C12_Witness ==
    /\ response.message = PolicyMessage
    /\ now = 1
    /\ AllIdle
    /\ \E b \in DOMAIN bookings :
          /\ bookings[b].status = "confirmed"
          /\ DOMAIN bookings = {b}
          /\ refunds[b] = 0 /\ decrements[b] = 0
          /\ events[bookings[b].eventId].attendees = bookings[b].quantity

(* C13: cancelBooking requested with an email other than the booking's is   *)
(* rejected with Forbidden, issues no refund and leaves the booking and the *)
(* event's attendees unchanged; requested with the booking's email it goes  *)
(* on to the already-cancelled, policy and refund steps.                    *)
C13_OnlyOwnerCancels ==
    [][\A p \in Slots, b \in BookingIds, email \in Requesters :
         (CancelBookingFind(p, b, email) /\ b \in DOMAIN bookings)
         => IF bookings[b].email # email
            THEN /\ response'.code = 403
                 /\ response'.message = ForbiddenMessage
                 /\ pc'[p] = "idle"
                 /\ NoEffect
            ELSE /\ response'.message # ForbiddenMessage
                 /\ \/ response'.message \in {AlreadyCancelledMessage, PolicyMessage}
                    \/ pc'[p] \in {"cancel_refund", "cancel_save"}]_vars

\* a stranger was refused while the booking stands confirmed and unrefunded
C13_Witness ==
    /\ response.message = ForbiddenMessage
    /\ response.code = 403
    /\ AllIdle
    /\ DOMAIN bookings = {1}
    /\ bookings[1].status = "confirmed"
    /\ bookings[1].paymentIntentId # NoPayment
    /\ refunds[1] = 0
    /\ events[bookings[1].eventId].attendees = bookings[1].quantity

(* C14: once a cancelBooking request for a booking has completed            *)
(* successfully, every later cancelBooking request for it is rejected as    *)
(* already cancelled (Forbidden for a stranger) and has no effect: no       *)
(* refund request, no further decrement.                                    *)
C14_LaterCancelRejected ==
    [][\A p \in Slots, b \in BookingIds, email \in Requesters :
         (CancelBookingFind(p, b, email) /\ decrements[b] >= 1)
         => /\ pc'[p] = "idle"
            /\ response'.code = IF bookings[b].email = email THEN 400 ELSE 403
            /\ response'.message =
                 IF bookings[b].email = email
                 THEN AlreadyCancelledMessage ELSE ForbiddenMessage
            /\ NoEffect]_vars

\* the owner asked again after the cancellation went through: refused, with
\* one refund and one decrement on record
C14_Witness ==
    /\ response.message = AlreadyCancelledMessage
    /\ AllIdle
    /\ \E b \in DOMAIN bookings :
          /\ DOMAIN bookings = {b}
          /\ bookings[b].status = "cancelled"
          /\ refunds[b] = 1
          /\ decrements[b] = 1

(* C16: in cancelBooking the refund comes before the local mutation: for a  *)
(* booking with a payment reference the status is set to cancelled and      *)
(* attendees decremented only after a refund request for that reference has *)
(* returned successfully; for a booking with none the cancellation is       *)
(* applied with no refund request and the refund receipt returned is null.  *)
C16_RefundBeforeMutation ==
    [][\A p \in Slots :
         ( \/ pc[p] = "cancel_save" /\ pc'[p] = "cancel_dec"
           \/ pc[p] = "cancel_dec" /\ pc'[p] = "idle" )
         => LET b == req[p].bookingId IN
            /\ bookings[b].paymentIntentId # NoPayment
                 => (refunds[b] >= 1 /\ req[p].refund)
            /\ bookings[b].paymentIntentId = NoPayment
                 => (refunds'[b] = 0 /\ ~req[p].refund)
            /\ pc'[p] = "idle"
                 => ( /\ response'.code = 200
                      /\ response'.refund = (bookings[b].paymentIntentId # NoPayment)
                      /\ bookings[b].status = "cancelled" )]_vars

\* a paid booking was cancelled after its one refund, and the answer carries
\* the receipt
C16_Witness ==
    /\ response.code = 200
    /\ response.refund
    /\ AllIdle
    /\ \E b \in DOMAIN bookings :
          /\ DOMAIN bookings = {b}
          /\ bookings[b].paymentIntentId # NoPayment
          /\ bookings[b].status = "cancelled"
          /\ refunds[b] = 1
          /\ decrements[b] = 1

ticketBooking == stringToId(response.ticket.bookingId)

(* C17: downloadTicket produces a ticket only if the booking exists, the    *)
(* requester's email is the booking's, and the booking's status is          *)
(* confirmed at the time of the check; a pending or cancelled booking, or a *)
(* requester who is not the owner, never yields a ticket.                   *)
C17_TicketOnlyForConfirmedOwner ==
    [][\A p \in Slots, b \in BookingIds, email \in Emails \cup {NoEmail} :
         downloadTicket(p, b, email)
         => /\ (response'.code = 200) <=> (response'.ticket # NoTicket)
            /\ response'.code = 200
                 => ( /\ b \in DOMAIN bookings
                      /\ bookings[b].email = email
                      /\ bookings[b].status = "confirmed"
                      /\ response'.ticket.bookingId = idToString(b)
                      /\ response'.ticket.eventId = bookings[b].eventId )
            /\ ( \/ b \notin DOMAIN bookings
                 \/ bookings[b].email # email
                 \/ bookings[b].status \in {"pending", "cancelled"} )
                 => response'.code \in {401, 403, 404, 400}]_vars

\* a ticket has just been issued for one booking while the other one, pending,
\* has none
C17_Witness ==
    /\ response.code = 200
    /\ ticketBooking \in DOMAIN bookings
    /\ bookings[ticketBooking].status = "confirmed"
    /\ \E c \in DOMAIN bookings : bookings[c].status = "pending"

(* C18: ticket issuance has no effect on stored state: a downloadTicket     *)
(* call, successful or rejected, leaves every booking and every event's     *)
(* attendees unchanged, so an issuance for a confirmed booking is never     *)
(* refused on account of an earlier one.                                    *)
C18_IssuanceChangesNothing ==
    [][\A p \in Slots, b \in BookingIds, email \in Emails \cup {NoEmail} :
         downloadTicket(p, b, email)
         => /\ bookings' = bookings
            /\ events' = events
            /\ refunds' = refunds /\ decrements' = decrements /\ nextId' = nextId
            /\ ( /\ b \in DOMAIN bookings
                 /\ bookings[b].email = email
                 /\ bookings[b].status = "confirmed"
                 /\ bookings[b].eventId \in DOMAIN events )
                 => \/ response'.code = 200
                    \/ response'.message = "Ticket generation failed"]_vars

\* a ticket was issued for a confirmed booking, which stands as it was booked
C18_Witness ==
    /\ response.code = 200
    /\ response.ticket.ticketId = "TKT-B"
    /\ AllIdle
    /\ DOMAIN bookings = {1}
    /\ ticketBooking = 1
    /\ bookings[1].status = "confirmed"
    /\ events[bookings[1].eventId].attendees = bookings[1].quantity

(* C19: verifyTicket reports valid=true only if the booking named by the    *)
(* payload's booking id exists, its status is not cancelled, and the        *)
(* payload's event id equals the id of the event the booking references.    *)
C19_ValidOnlyIfMatching ==
    [][\A p \in Slots, qrData \in QrDatas :
         (verifyTicket(p, qrData) /\ response'.valid)
         => /\ parses(qrData)
            /\ stringToId(parse(qrData).bookingId) \in DOMAIN bookings
            /\ bookings[stringToId(parse(qrData).bookingId)].status # "cancelled"
            /\ parse(qrData).eventId
                 = bookings[stringToId(parse(qrData).bookingId)].eventId]_vars

\* a payload has just verified as valid
C19_Witness == response.valid /\ response.code = 200

(* C20: the payload createTicket produces for a confirmed booking,          *)
(* presented unchanged to verifyTicket while the booking is still           *)
(* confirmed, verifies valid=true.                                          *)
C20_TicketRoundTrip ==
    [][\A p \in Slots, b \in BookingIds, ticketId \in TicketIds :
         ( /\ b \in DOMAIN bookings
           /\ bookings[b].status = "confirmed"
           /\ bookings[b].eventId \in DOMAIN events
           /\ verifyTicket(p, stringify(ticketData(b, bookings[b].eventId, ticketId))) )
         => (response'.valid /\ response'.code = 200)]_vars

\* the ticket of a confirmed booking has just been refused for its event id
C20_Witness ==
    /\ response.message = "Event mismatch"
    /\ AllIdle
    /\ \A b \in BookingIds : b \in DOMAIN bookings /\ bookings[b].status = "confirmed"

\* the payload a ticket issued at `timestamp` for the stored booking b carries
issuedPayload(b, ticketId, timestamp) ==
    stringify([ticketData(b, bookings[b].eventId, ticketId)
                 EXCEPT !.timestamp = timestamp])

\* a step of a request that is answered in one step and writes nothing, as
\* every verifyTicket step is
answeredAtOnce == pc' = pc /\ bookings' = bookings /\ events' = events

(* C21: a cancelled booking stays cancelled, and every verification of a    *)
(* payload issued for it that is made after the cancellation answers        *)
(* valid=false with 'Ticket has been cancelled'.                            *)
C21_RevokedAfterCancel ==
    [][\A b \in DOMAIN bookings :
         bookings[b].status = "cancelled"
         => /\ b \in DOMAIN bookings'
            /\ bookings'[b].status = "cancelled"
            /\ \A p \in Slots, ticketId \in TicketIds, timestamp \in 0..MaxNow :
                 ( /\ answeredAtOnce
                   /\ verifyTicket(p, issuedPayload(b, ticketId, timestamp)) )
                 => /\ ~response'.valid
                    /\ response'.code = 400
                    /\ response'.message = "Ticket has been cancelled"]_vars

\* the ticket of the one booking, cancelled by its owner, was just refused
C21_Witness ==
    /\ response.message = "Ticket has been cancelled"
    /\ ~response.valid
    /\ AllIdle
    /\ DOMAIN bookings = {1}
    /\ bookings[1].status = "cancelled"
    /\ decrements[1] = 1

\* the outcome the order shape, lookup, status, event id gives a payload
firstFailedCheck(qrData) ==
    IF ~parses(qrData) THEN "Invalid ticket format"
    ELSE LET data == parse(qrData) IN
         IF data.ticketId = "" \/ data.bookingId = "" THEN "Invalid ticket format"
         ELSE IF stringToId(data.bookingId) \notin DOMAIN bookings
         THEN "Ticket not found"
         ELSE IF bookings[stringToId(data.bookingId)].status = "cancelled"
         THEN "Ticket has been cancelled"
         ELSE IF bookings[stringToId(data.bookingId)].eventId # data.eventId
         THEN "Event mismatch"
         ELSE VerifiedMessage

(* C22: verifyTicket evaluates shape, booking lookup, cancelled status and  *)
(* event id equality in that order and reports the first that fails; a      *)
(* payload that does not parse is reported as 'Invalid ticket format'.      *)
C22_FirstFailedCheckReported ==
    [][\A p \in Slots, qrData \in QrDatas \ {<<>>} :
         verifyTicket(p, qrData)
         => response'.message = firstFailedCheck(qrData)]_vars

\* a text that is no JSON was just answered with the catch-all message
C22_Witness ==
    /\ response.message = "Verification failed"
    /\ response.code = 400
    /\ bookings = <<>>

\* the payloads that parse and carry a ticket id
WithTicketId == {qrData \in QrDatas : parses(qrData) /\ parse(qrData).ticketId # ""}

\* the payload that agrees with qrData on booking id and event id and carries
\* the ticket id, email, quantity and timestamp given
variant(qrData, ticketId, email, quantity, timestamp) ==
    stringify([parse(qrData) EXCEPT !.ticketId = ticketId, !.email = email,
                                    !.quantity = quantity, !.timestamp = timestamp])

(* C23: two payloads with a ticket id that agree on booking id and event id *)
(* get the same verification outcome, whatever their ticket id, email,      *)
(* quantity and timestamp are: each payload's outcome is that of the one    *)
(* variant of it with fixed values in those four fields.                    *)
C23_OutcomeKeyedOnBooking ==
    \A qrData \in WithTicketId :
        verifyMessage(qrData)
          = verifyMessage(variant(qrData, "TKT-A", Customer, MinQuantity, 0))

\* the one booking's payload verifies alike under both ticket ids, with
\* another email, quantity and timestamp, and one such payload was just
\* presented
C23_Witness ==
    /\ response.valid
    /\ DOMAIN bookings = {1}
    /\ \E qrData \in WithTicketId :
         /\ parse(qrData).bookingId = idToString(1)
         /\ parse(qrData).ticketId = "TKT-B"
         /\ verifyMessage(qrData) = VerifiedMessage
         /\ verifyMessage(variant(qrData, "TKT-A", "b@x.com", MaxQuantity, MaxNow))
              = VerifiedMessage

(* C24: an event's attendees counter is changed by addBooking and           *)
(* cancelBooking only: an updateEvent request, whatever data the client     *)
(* supplies, leaves the attendees of every event as they were.              *)
C24_UpdateKeepsAttendees ==
    [][\A p \in Slots, r \in UpdateRequests :
         updateEvent(p, r[1], r[2], r[3])
         => \A e \in DOMAIN events : events'[e].attendees = events[e].attendees]_vars

\* the one booking stands, never cancelled, and an update has just left its
\* event with no attendees
C24_Witness ==
    /\ response.message = "updated"
    /\ AllIdle
    /\ DOMAIN bookings = {1}
    /\ bookings[1].quantity >= MinQuantity
    /\ decrements[1] = 0
    /\ events[bookings[1].eventId].attendees = 0

\* no deleteEvent request is between its queries
NoDeletionRunning == \A p \in Slots : pc[p] \notin {"delete_event", "delete_bookings"}

(* C25: once deleteEvent has completed for an event, no stored booking      *)
(* references that event, the bookings of addBooking requests that were in  *)
(* flight during the deletion included.                                     *)
C25_NoBookingOfDeletedEvent ==
    NoDeletionRunning
    => \A b \in DOMAIN bookings : bookings[b].eventId \in DOMAIN events

\* the event is gone, every request is answered, the last with 201, and a
\* booking of the event is stored
C25_Witness ==
    /\ AllIdle
    /\ DOMAIN events = {}
    /\ response.code = 201
    /\ \E b \in DOMAIN bookings : bookings[b].eventId \in EventIds

(* C26: an updateEvent or deleteEvent request whose email is not the        *)
(* event's email is answered 403 at once and leaves the event and its       *)
(* bookings as they were.                                                   *)
C26_OnlyOrganizerChangesEvent ==
    [][\A p \in Slots, id \in DOMAIN events, email \in Emails :
         ( /\ events[id].email # email
           /\ \/ \E data \in UpdateDatas : updateEvent(p, id, email, data)
              \/ DeleteEventFind(p, id, email) )
         => /\ response'.code = 403
            /\ pc'[p] = "idle"
            /\ events' = events
            /\ bookings' = bookings]_vars

\* a deletion by another caller was just refused; the event and its booking stand
C26_Witness ==
    /\ response.code = 403
    /\ response.message = "Forbidden: You can only delete your own events"
    /\ AllIdle
    /\ DOMAIN bookings = {1}
    /\ bookings[1].eventId \in DOMAIN events
    /\ events[bookings[1].eventId].attendees = bookings[1].quantity

\* the bookings a notification's payment reference names
concerned(paymentRef) ==
    {b \in DOMAIN bookings : bookings[b].paymentIntentId = paymentRef}

(* C27: a payment notification changes a booking's status only from pending *)
(* to confirmed (payment succeeded) or from pending to cancelled (payment   *)
(* failed or canceled), and only for a booking it concerns: a booking that  *)
(* is confirmed or cancelled keeps its status.                              *)
C27_ReconciliationFromPendingOnly ==
    [][\A p \in Slots, n \in Notifications :
         handleStripeWebhook(p, n[1], n[2], n[3])
         => /\ DOMAIN bookings' = DOMAIN bookings
            /\ \A b \in DOMAIN bookings :
                 bookings'[b].status # bookings[b].status
                 => /\ n[1]
                    /\ b \in concerned(n[3])
                    /\ bookings[b].status = "pending"
                    /\ \/ n[2] = "succeeded" /\ bookings'[b].status = "confirmed"
                       \/ n[2] \in {"failed", "canceled"}
                          /\ bookings'[b].status = "cancelled"]_vars

\* a notification was just received while the one booking, cancelled and
\* refunded by its owner before its payment was confirmed, stays cancelled
C27_Witness ==
    /\ response.message = "received"
    /\ AllIdle
    /\ DOMAIN bookings = {1}
    /\ bookings[1].paymentIntentId = "pi_1"
    /\ bookings[1].status = "cancelled"
    /\ decrements[1] = 1
    /\ refunds[1] = 1

(* C28: a payment-succeeded notification delivered for bookings that an     *)
(* earlier delivery has confirmed is answered 200 and changes nothing: the  *)
(* bookings stay confirmed, no booking is created, no attendees change; and *)
(* a first delivery leaves the booking it reaches confirmed.                *)
C28_ReplayIsIdempotent ==
    [][\A p \in Slots, paymentRef \in PaymentRefs :
         handleStripeWebhook(p, TRUE, "succeeded", paymentRef)
         => /\ response'.code = 200
            /\ events' = events
            /\ nextId' = nextId
            /\ DOMAIN bookings' = DOMAIN bookings
            /\ \A b \in concerned(paymentRef) :
                 /\ bookings[b].status = "confirmed" => bookings'[b] = bookings[b]
                 /\ bookings'[b].status # bookings[b].status
                      => bookings'[b].status = "confirmed"
            /\ (\A b \in concerned(paymentRef) : bookings[b].status = "confirmed")
                 => bookings' = bookings]_vars

\* the one booking, created pending with a payment, is confirmed, and a
\* notification was just received
C28_Witness ==
    /\ response.message = "received"
    /\ response.code = 200
    /\ AllIdle
    /\ DOMAIN bookings = {1}
    /\ bookings[1].paymentIntentId = "pi_1"
    /\ bookings[1].status = "confirmed"

(* C29: a payment notification never changes an event's attendees, and one  *)
(* of any kind whose payment reference matches no booking changes no stored *)
(* state and creates no booking.                                            *)
C29_NotificationLeavesLedger ==
    [][\A p \in Slots, n \in Notifications :
         handleStripeWebhook(p, n[1], n[2], n[3])
         => /\ events' = events
            /\ concerned(n[3]) = {}
                 => /\ bookings' = bookings
                    /\ nextId' = nextId
                    /\ refunds' = refunds]_vars

\* the one booking's payment failed: a notification cancelled it, and its
\* seat is still counted
C29_Witness ==
    /\ response.message = "received"
    /\ AllIdle
    /\ DOMAIN bookings = {1}
    /\ bookings[1].status = "cancelled"
    /\ decrements[1] = 0
    /\ events[bookings[1].eventId].attendees = bookings[1].quantity

(* C30: a booking that addBooking stores for a request naming no status has *)
(* status 'confirmed' as soon as it is stored, no payment notification      *)
(* having been received.                                                    *)
C30_ConfirmedByDefault ==
    [][\A p \in Slots :
         (AddBookingCreate(p) /\ bookingValid(req[p]) /\ req[p].status = Absent)
         => /\ DOMAIN bookings' = DOMAIN bookings \cup {nextId}
            /\ bookings'[nextId].status = "confirmed"]_vars

\* a booking was just stored as confirmed, its request not yet answered
C30_Witness ==
    \E p \in Slots :
        /\ pc[p] = "add_inc"
        /\ req[p].bookingId \in DOMAIN bookings
        /\ bookings[req[p].bookingId].status = "confirmed"
        /\ bookings[req[p].bookingId].paymentIntentId = NoPayment

(* C31: every stored booking has quantity >= 1 and totalPrice >= 0: an      *)
(* addBooking request with a quantity below 1 or a negative total price is  *)
(* answered with an error, stores no booking and leaves every event's       *)
(* attendees as they were.                                                  *)
C31_StoredBookingsValid ==
    [][/\ \A b \in DOMAIN bookings' :
            bookings'[b].quantity >= 1 /\ bookings'[b].totalPrice >= 0
       /\ \A p \in Slots :
            ( /\ AddBookingCreate(p)
              /\ (req[p].quantity < 1 \/ req[p].totalPrice < 0) )
            => /\ response'.code = 500
               /\ pc'[p] = "idle"
               /\ bookings' = bookings
               /\ events' = events]_vars

\* a request was just refused by the validators: nothing is stored or counted
C31_Witness ==
    /\ response.code = 500
    /\ response.message = "Failed to create booking"
    /\ AllIdle
    /\ bookings = <<>>
    /\ \A e \in DOMAIN events : events[e].attendees = 0

\* the response of each error kind, as status code and message
ErrorResponses ==
    [ EventNotFound    |-> <<404, "Event not found">>,
      SoldOut          |-> <<400, SoldOutMessage>>,
      CapacityExceeded |-> <<400, ExceededMessage>>,
      Forbidden        |-> <<403, ForbiddenMessage>>,
      AlreadyCancelled |-> <<400, AlreadyCancelledMessage>>,
      PolicyViolation  |-> <<400, PolicyMessage>>,
      RefundFailure    |-> <<500, "Cancellation initiated but refund failed">> ]

\* the responses of the catch-all handlers
GenericResponses ==
    {<<500, "Failed to create booking">>, <<500, "Failed to cancel booking">>}

\* the error kind an addBooking request for a body meets first, "none" if none
addFailure(body) ==
    IF body.eventId \notin DOMAIN events THEN "EventNotFound"
    ELSE LET event == events[body.eventId] IN
         IF event.capacity = Unlimited THEN "none"
         ELSE IF event.attendees >= event.capacity THEN "SoldOut"
         ELSE IF event.attendees + body.quantity > event.capacity
         THEN "CapacityExceeded"
         ELSE "none"

\* the error kind a cancelBooking request for a stored booking meets first
cancelFailure(bookingId, email) ==
    IF bookings[bookingId].email # email THEN "Forbidden"
    ELSE IF bookings[bookingId].status = "cancelled" THEN "AlreadyCancelled"
    ELSE IF events[bookings[bookingId].eventId].date - now
              < PolicyHours * UnitsPerHour
    THEN "PolicyViolation"
    ELSE "none"

\* the request bodies that name no status and no payment: one for each event
\* and quantity a request can name
PlainBodies ==
    {body \in AddBodies : body.status = Absent /\ body.paymentIntentId = NoPayment}

\* the responses of the error kinds differ from each other and from the
\* catch-all responses
ErrorResponsesDistinct ==
    /\ \A k1, k2 \in DOMAIN ErrorResponses :
         k1 # k2 => ErrorResponses[k1] # ErrorResponses[k2]
    /\ \A k \in DOMAIN ErrorResponses : ErrorResponses[k] \notin GenericResponses

(* C32: the responses for event not found, sold out, capacity exceeded,     *)
(* forbidden, already cancelled, policy violation and refund failure are    *)
(* pairwise different and different from the generic failure responses, and *)
(* every request that fails for one of these reasons gets the response of   *)
(* its kind.                                                                *)
C32_ErrorKindsDistinguished ==
    [][/\ ErrorResponsesDistinct
       /\ \A p \in Slots :
            pc[p] = "idle"
            => /\ \A body \in PlainBodies :
                    (addFailure(body) # "none" /\ AddBookingFind(p, body))
                    => <<response'.code, response'.message>>
                         = ErrorResponses[addFailure(body)]
               /\ \A b \in DOMAIN bookings, email \in Emails :
                    ( /\ eventStored(b)
                      /\ cancelFailure(b, email) # "none"
                      /\ CancelBookingFind(p, b, email) )
                    => <<response'.code, response'.message>>
                         = ErrorResponses[cancelFailure(b, email)]
       /\ \A p \in Slots :
            (pc[p] = "cancel_refund" /\ CancelBookingRefund(p) /\ pc'[p] = "idle")
            => <<response'.code, response'.message>>
                 = ErrorResponses["RefundFailure"]]_vars

\* a refund has just failed and was reported as such, the booking standing
C32_Witness ==
    /\ <<response.code, response.message>> = ErrorResponses["RefundFailure"]
    /\ AllIdle
    /\ \E b \in DOMAIN bookings :
         /\ bookings[b].status # "cancelled"
         /\ bookings[b].paymentIntentId # NoPayment
         /\ isSoldOut(events[bookings[b].eventId])

(* C33: when an addBooking request ends, either it answers 201, its booking *)
(* is stored and the event's attendees has grown by the booking's quantity, *)
(* or it answers an error, no booking of it is stored and no event has      *)
(* changed, also when the attendee update fails.                            *)
C33_AddBookingAllOrNothing ==
    [][\A p \in Slots :
         (pc[p] \in {"add_create", "add_inc"} /\ pc'[p] = "idle")
         => LET b == IF pc[p] = "add_inc" THEN req[p].bookingId ELSE nextId
                e == req[p].eventId
            IN  \/ /\ response'.code = 201
                   /\ b \in DOMAIN bookings'
                   /\ e \in DOMAIN events /\ e \in DOMAIN events'
                   /\ events'[e].attendees = events[e].attendees + req[p].quantity
                \/ /\ response'.code # 201
                   /\ b \notin DOMAIN bookings'
                   /\ events' = events]_vars

\* an addBooking request was just answered with an error, its booking stored
\* and its seats not counted
C33_Witness ==
    /\ response.code = 500
    /\ response.message = "Failed to create booking"
    /\ AllIdle
    /\ DOMAIN bookings = {1}
    /\ events[bookings[1].eventId].attendees = 0

(* C34: when a cancelBooking request ends with an error response, the       *)
(* booking is not cancelled and no event's attendees has changed: a booking *)
(* is never left cancelled with its seats still counted.                    *)
C34_FailedCancelChangesNothing ==
    [][\A p \in Slots :
         ( /\ pc[p] \in {"cancel_refund", "cancel_save", "cancel_dec"}
           /\ pc'[p] = "idle"
           /\ response'.code # 200 )
         => /\ req[p].bookingId \in DOMAIN bookings'
            /\ bookings'[req[p].bookingId].status # "cancelled"
            /\ events' = events]_vars

\* a cancellation was just answered with an error, the booking cancelled and
\* its seats still counted
C34_Witness ==
    /\ response.code = 500
    /\ response.message = "Failed to cancel booking"
    /\ AllIdle
    /\ DOMAIN bookings = {1}
    /\ bookings[1].status = "cancelled"
    /\ decrements[1] = 0
    /\ events[bookings[1].eventId].attendees = bookings[1].quantity

(* C35: over any sequence of cancelBooking attempts on one booking, one     *)
(* attempt after another, an attempt that stops between the refund and the  *)
(* status write included, at most one refund is issued for the booking.     *)
C35_AtMostOneRefund ==
    \A b \in BookingIds : refunds[b] <= 1

\* the booking was refunded twice, by an attempt whose status write failed
\* and by the attempt made after it
C35_Witness ==
    /\ AllIdle
    /\ DOMAIN bookings = {1}
    /\ refunds[1] = 2
    /\ decrements[1] = 1
    /\ bookings[1].status = "cancelled"

(* C36: verifyTicket reports valid=true only for a stored booking whose     *)
(* status is confirmed; a payload naming a pending booking never verifies   *)
(* as valid.                                                                *)
C36_ValidOnlyIfConfirmed ==
    [][\A p \in Slots, qrData \in QrDatas :
         (verifyTicket(p, qrData) /\ response'.valid)
         => /\ stringToId(parse(qrData).bookingId) \in DOMAIN bookings
            /\ bookings[stringToId(parse(qrData).bookingId)].status = "confirmed"]_vars

\* a payload naming the one booking, which is pending, has just verified as valid
C36_Witness ==
    /\ response.valid
    /\ response.code = 200
    /\ DOMAIN bookings = {1}
    /\ bookings[1].status = "pending"

(* C37: when cancelBooking rejects a request under the 24-hour policy, the  *)
(* hoursUntilEvent it reports is the time remaining until the event in      *)
(* hours, and so is below 24.                                               *)
C37_ReportedHoursAreActual ==
    [][\A p \in Slots, b \in DOMAIN bookings, email \in Emails :
         ( /\ pc[p] = "idle"
           /\ eventStored(b)
           /\ CancelBookingFind(p, b, email)
           /\ response'.message = PolicyMessage )
         => /\ response'.hoursUntilEvent * UnitsPerHour
                 = events[bookings[b].eventId].date - now
            /\ response'.hoursUntilEvent < PolicyHours]_vars

\* a cancellation was just refused under the policy with 24 hours reported
C37_Witness ==
    /\ response.message = PolicyMessage
    /\ response.code = 400
    /\ response.hoursUntilEvent = PolicyHours

(* C38: whatever fields the addBooking request body carries, the booking it *)
(* creates is not in cancelled status.                                      *)
C38_NeverCreatedCancelled ==
    [][\A p \in Slots :
         (AddBookingCreate(p) /\ nextId \in DOMAIN bookings')
         => bookings'[nextId].status # "cancelled"]_vars

\* a booking was just stored as cancelled, no cancellation having been made
C38_Witness ==
    \E p \in Slots :
        /\ pc[p] = "add_inc"
        /\ req[p].bookingId \in DOMAIN bookings
        /\ bookings[req[p].bookingId].status = "cancelled"
        /\ decrements[req[p].bookingId] = 0
        /\ \A q \in Slots : pc[q] \in {"idle", "add_inc"}

(* C39: when a booking of quantity q on a sold-out event of finite capacity *)
(* is cancelled, then right after the cancellation an addBooking for any    *)
(* quantity from 1 to q passes the event's capacity checks.                 *)
C39_ReleasedSeatsBookable ==
    [][\A p \in Slots :
         ( /\ pc[p] = "cancel_dec"
           /\ CancelBookingDec(p)
           /\ req[p].eventId \in DOMAIN events
           /\ events[req[p].eventId].capacity # Unlimited
           /\ isSoldOut(events[req[p].eventId]) )
         => \A quantity \in 1..req[p].quantity :
               /\ ~soldOutCheck(events'[req[p].eventId])
               /\ ~exceedsCheck(events'[req[p].eventId], quantity)]_vars

\* a cancellation has just succeeded and the event is sold out all the same
C39_Witness ==
    /\ response.code = 200
    /\ response.message = "Booking cancelled successfully"
    /\ AllIdle
    /\ \A e \in DOMAIN events :
         events[e].capacity # Unlimited /\ isSoldOut(events[e])

====
